---- MODULE Spec2Model ----
(***************************************************************************)
(* tap-excel: schema inference, record cleaning and the incremental sync   *)
(* loop of ExcelTap (src/tap_excel/__init__.py) and the record cleaning of *)
(* ExcelConnection (src/connection.py).                                    *)
(*                                                                         *)
(* A cell is the Python value that pandas hands to the tap, tagged by its  *)
(* kind.  Text is a sequence of one-character strings so that the regular  *)
(* expressions of _infer_column_type can be evaluated character by         *)
(* character.  A float is carried in thousandths (19999 is 19.999).        *)
(***************************************************************************)
EXTENDS Integers, Sequences, FiniteSets, TLC

\* ------------------------------------------------------------------ bounds
MaxRows == 2
MaxKey == 2
MaxCol == 2
MaxPrior == 1
MaxRuns == 2

\* ------------------------------------------------------------------ cells
NoText == <<>>

Cell(kind, num, text) == [kind |-> kind, n |-> num, s |-> text]

Null == Cell("null", 0, NoText)

IntCell(i) == Cell("int", i, NoText)

FloatCell(milli) == Cell("float", milli, NoText)

BoolCell(b) == Cell("bool", IF b THEN 1 ELSE 0, NoText)

TextCell(t) == Cell("text", 0, t)

IsNa(c) == c.kind = "null"

\* ------------------------------------------------------------------ text
Digits == {"0", "1", "2", "3", "4", "5", "6", "7", "8", "9"}

DigitChar(d) == <<"0", "1", "2", "3", "4", "5", "6", "7", "8", "9">>[d + 1]

RECURSIVE DigitsOf(_)
DigitsOf(i) == IF i < 10 THEN <<DigitChar(i)>>
               ELSE Append(DigitsOf(i \div 10), DigitChar(i % 10))

\* the fractional digits of a float in thousandths, as Python's repr shows
\* them: trailing zeros dropped, one digit kept
FracDigits(m) ==
    LET a == m \div 100
        b == (m \div 10) % 10
        c == m % 10
    IN  IF c # 0 THEN <<DigitChar(a), DigitChar(b), DigitChar(c)>>
        ELSE IF b # 0 THEN <<DigitChar(a), DigitChar(b)>>
        ELSE <<DigitChar(a)>>

Lower(ch) ==
    CASE ch = "T" -> "t"
      [] ch = "F" -> "f"
      [] ch = "R" -> "r"
      [] ch = "U" -> "u"
      [] ch = "E" -> "e"
      [] ch = "A" -> "a"
      [] ch = "L" -> "l"
      [] ch = "S" -> "s"
      [] OTHER -> ch

LowerText(t) == [i \in 1..Len(t) |-> Lower(t[i])]

\* str(v) of a cell, as series.astype(str) and str(v) produce it
StrOf(c) ==
    CASE c.kind = "int" -> DigitsOf(c.n)
      [] c.kind = "float" -> DigitsOf(c.n \div 1000) \o <<".">> \o FracDigits(c.n % 1000)
      [] c.kind = "bool" -> IF c.n = 1 THEN <<"T", "r", "u", "e">>
                            ELSE <<"F", "a", "l", "s", "e">>
      [] c.kind = "null" -> <<"n", "a", "n">>
      [] OTHER -> c.s

\* a regular expression without repetition: "D" stands for \d, any other
\* element for itself; str.match anchors at the start only (re.match)
ReMatch(pat, t) ==
    /\ Len(t) >= Len(pat)
    /\ \A i \in 1..Len(pat) :
          IF pat[i] = "D" THEN t[i] \in Digits ELSE t[i] = pat[i]

\* ------------------------------------------------------------------ series
\* a pandas Series: its dtype and its values
Series(dtype, cells) == [dtype |-> dtype, cells |-> cells]

\* the dtype pandas gives a column read from a sheet
DtypeOf(cells) ==
    LET idx == 1..Len(cells)
    IN  IF cells # <<>> /\ (\A i \in idx : cells[i].kind \in {"timestamp", "null"})
                        /\ (\E i \in idx : cells[i].kind = "timestamp")
          THEN "datetime64[ns]"
        ELSE IF cells # <<>> /\ \A i \in idx : cells[i].kind = "bool" THEN "bool"
        ELSE IF cells # <<>> /\ \A i \in idx : cells[i].kind = "int" THEN "int64"
        ELSE IF cells # <<>> /\ \A i \in idx : cells[i].kind \in {"float", "null"}
          THEN "float64"
        ELSE "object"

RECURSIVE DropNa(_)
DropNa(cells) ==
    IF cells = <<>> THEN <<>>
    ELSE IF IsNa(Head(cells)) THEN DropNa(Tail(cells))
    ELSE <<Head(cells)>> \o DropNa(Tail(cells))

HeadN(cells, k) == IF Len(cells) <= k THEN cells ELSE SubSeq(cells, 1, k)

sample_size == 100

IsDatetimeDtype(dtype) == dtype = "datetime64[ns]"

IsNumericDtype(dtype) == dtype \in {"int64", "float64", "bool"}

\* v % 1 == 0 for a numeric cell
IsIntegral(c) == c.kind \in {"int", "bool"} \/ (c.kind = "float" /\ c.n % 1000 = 0)

date_formats ==
    << [pat |-> <<"D","D","D","D","-","D","D","-","D","D">>, fmt |-> "date"],
       [pat |-> <<"D","D","/","D","D","/","D","D","D","D">>, fmt |-> "date"],
       [pat |-> <<"D","D","D","D","/","D","D","/","D","D">>, fmt |-> "date"],
       [pat |-> <<"D","D","-","D","D","-","D","D","D","D">>, fmt |-> "date"],
       [pat |-> <<"D","D","D","D",".","D","D",".","D","D">>, fmt |-> "date"],
       [pat |-> <<"D","D",":","D","D",":","D","D">>, fmt |-> "time"],
       [pat |-> <<"D","D","D","D","-","D","D","-","D","D"," ",
                  "D","D",":","D","D",":","D","D">>, fmt |-> "date-time"] >>

\* str_sample.str.match(pattern).any()
AnyMatch(pat, strs) == \E i \in 1..Len(strs) : ReMatch(pat, strs[i])

\* the first entry of date_formats that some sampled value matches, 0 if none
FirstFormat(strs) ==
    IF \E k \in 1..Len(date_formats) : AnyMatch(date_formats[k].pat, strs)
    THEN CHOOSE k \in 1..Len(date_formats) :
            /\ AnyMatch(date_formats[k].pat, strs)
            /\ \A j \in 1..(k - 1) : ~AnyMatch(date_formats[j].pat, strs)
    ELSE 0

AllDigits(t, a, b) == \A i \in a..b : t[i] \in Digits

\* \d+\.?\d*$ from position k of t
NumberTail(t, k) ==
    \E j \in k..Len(t) :
        /\ AllDigits(t, k, j)
        /\ \/ j = Len(t)
           \/ t[j + 1] = "." /\ AllDigits(t, j + 2, Len(t))

\* ^[£$€¥]\s?\d+\.?\d*$
CurrencyMatch(t) ==
    /\ Len(t) >= 2
    /\ t[1] \in {"GBP", "$", "EUR", "YEN"}
    /\ \/ NumberTail(t, 2)
       \/ t[2] = " " /\ NumberTail(t, 3)

TypeInfo(types, format, excel_dtype, inferred) ==
    [type |-> types, format |-> format, excel_dtype |-> excel_dtype,
     inferred_type |-> inferred]

\* type_info initialised without "null"
InitialTypes_NotNullable == <<>>

\* type_info as initialised at lines 43-49
InitialTypes == <<"null">>

InferColumnType(series) ==
    LET cells == series.cells
        col_type == series.dtype
        sample == HeadN(DropNa(cells), sample_size)
        str_sample == [i \in 1..Len(sample) |-> StrOf(sample[i])]
        nonnull == DropNa(cells)
        numeric_types ==
            IF IsNumericDtype(col_type)
            THEN IF \A i \in 1..Len(nonnull) : IsIntegral(nonnull[i])
                 THEN <<"integer">> ELSE <<"number">>
            ELSE <<>>
        f == FirstFormat(str_sample)
    IN  IF \A i \in 1..Len(cells) : IsNa(cells[i])
          THEN TypeInfo(<<"null", "string">>, "none", "none", "none")
        ELSE IF IsDatetimeDtype(col_type)
          THEN TypeInfo(InitialTypes \o <<"string">>, "date-time", col_type, "datetime")
        ELSE IF col_type = "bool"
                \/ \A i \in 1..Len(str_sample) :
                      LowerText(str_sample[i]) \in {<<"t","r","u","e">>, <<"f","a","l","s","e">>}
          THEN TypeInfo(InitialTypes \o <<"boolean">>, "none", col_type, "boolean")
        ELSE IF f # 0
          THEN TypeInfo(InitialTypes \o <<"string">>, date_formats[f].fmt, col_type,
                        date_formats[f].fmt)
        ELSE IF \E i \in 1..Len(str_sample) : CurrencyMatch(str_sample[i])
          THEN TypeInfo(InitialTypes \o <<"string">>, "none", col_type, "currency")
        ELSE IF numeric_types # <<>>
          THEN TypeInfo(InitialTypes \o numeric_types \o <<"string">>, "none", col_type,
                        numeric_types[1])
        ELSE TypeInfo(InitialTypes \o <<"string">>, "none", col_type, "string")


\* ------------------------------------------------------------------ cleaning
\* Python's None
None == Cell("none", 0, NoText)

\* the attributes ExcelTap.__init__ assigns to self
TapSelf(cfg) == [config |-> cfg, file_path |-> cfg.file_path, sheets_to_sync |-> cfg.sheets]

\* round(v, ndigits) on a float in thousandths: to the nearest, ties to even
Round(milli, ndigits) ==
    IF ndigits >= 3 THEN milli
    ELSE LET unit == IF ndigits = 2 THEN 10 ELSE IF ndigits = 1 THEN 100 ELSE 1000
             q == milli \div unit
             r == milli % unit
         IN  IF 2 * r > unit \/ (2 * r = unit /\ q % 2 = 1)
             THEN (q + 1) * unit ELSE q * unit

\* pd.Timestamp.isoformat(): the date and the time joined by "T"
IsoFormat(t) == [i \in 1..Len(t) |-> IF i = 11 THEN "T" ELSE t[i]]

Returned(v) == [raised |-> "none", value |-> v]

Raised(e) == [raised |-> e, value |-> None]

\* one iteration of the loop of ExcelConnection.clean_record
CleanValue(v, float_precision) ==
    IF IsNa(v) \/ v.kind = "none" THEN Returned(None)
    ELSE IF v.kind = "timestamp" THEN Returned(TextCell(IsoFormat(v.s)))
    ELSE IF v.kind \in {"timedelta", "datetime"} THEN Returned(TextCell(StrOf(v)))
    ELSE IF v.kind = "float" THEN Returned(FloatCell(Round(v.n, float_precision)))
    ELSE Returned(v)

\* self.<name>: an attribute that was never assigned raises
GetAttr(self, name) ==
    IF name \in DOMAIN self THEN Returned(self[name]) ELSE Raised("AttributeError")

\* one iteration of the loop of ExcelTap._clean_record: the precision is
\* read from self.float_precision
TapCleanValue(self, v) ==
    IF IsNa(v) \/ v.kind = "none" THEN Returned(None)
    ELSE IF v.kind = "timestamp" THEN Returned(TextCell(IsoFormat(v.s)))
    ELSE IF v.kind \in {"timedelta", "datetime"} THEN Returned(TextCell(StrOf(v)))
    ELSE IF v.kind = "float"
      THEN LET p == GetAttr(self, "float_precision")
           IN  IF p.raised # "none" THEN Raised(p.raised)
               ELSE Returned(FloatCell(Round(v.n, p.value)))
    ELSE Returned(v)

\* a record is a function from column names to cells; the first value that
\* raises ends the call
TapCleanRecord(self, record) ==
    LET res == [k \in DOMAIN record |-> TapCleanValue(self, record[k])]
    IN  IF \E k \in DOMAIN record : res[k].raised # "none"
        THEN Raised(res[CHOOSE k \in DOMAIN record : res[k].raised # "none"].raised)
        ELSE Returned([k \in DOMAIN record |-> res[k].value])

\* ExcelConnection.clean_record(record, float_precision)
ConnCleanRecord(record, float_precision) ==
    LET res == [k \in DOMAIN record |-> CleanValue(record[k], float_precision)]
    IN  IF \E k \in DOMAIN record : res[k].raised # "none"
        THEN Raised(res[CHOOSE k \in DOMAIN record : res[k].raised # "none"].raised)
        ELSE Returned([k \in DOMAIN record |-> res[k].value])

\* ------------------------------------------------------------------ sync
VARIABLES
    config,            \* the tap's configuration
    workbook,          \* the Excel file: sheet names and sheet contents
    input_state,       \* the state main() passes to sync
    state,             \* sync's state dictionary
    sheets_to_process, \* the list sync iterates over
    sheet_i,           \* position of the for loop over sheets_to_process
    df,                \* the DataFrame of the sheet being processed
    row_i,             \* position of the for loop over df.iterrows()
    max_bookmark,      \* sync's local max_bookmark
    out,               \* the Singer messages written so far
    pc,                \* where the process is
    raised,            \* the exception that ended the process, if any
    run,               \* number of the invocation of the tap
    series,            \* argument of _infer_column_type
    type_info,         \* its result
    record,            \* argument of the record cleaners
    cleaned            \* their result

vars == <<config, workbook, input_state, state, sheets_to_process, sheet_i, df, row_i,
          max_bookmark, out, pc, raised, run, series, type_info, record, cleaned>>

syncVars == <<config, workbook, input_state, state, sheets_to_process, sheet_i, df, row_i,
              max_bookmark, out, pc, raised, run>>

pureVars == <<series, type_info, record, cleaned>>

Streams == {"A", "B"}

NoFrame == [column |-> "none", series |-> Series("object", <<>>)]

\* the values a cell of a sheet takes in the sync runs
KeyCells == {Null} \cup {IntCell(i) : i \in 0..MaxKey} \cup {FloatCell(1500)}

RECURSIVE SeqsUpTo(_, _)
SeqsUpTo(S, k) ==
    IF k = 0 THEN {<<>>}
    ELSE LET shorter == SeqsUpTo(S, k - 1)
         IN  shorter \cup {Append(q, x) : q \in {r \in shorter : Len(r) = k - 1}, x \in S}

Unreadable == [readable |-> FALSE, column |-> "none", cells |-> <<>>]

SheetContents(k) ==
    {Unreadable} \cup
    [readable : {TRUE}, column : {"updated_at", "id"}, cells : SeqsUpTo(KeyCells, k)]

Rows(wb) == Len(wb.sheet["A"].cells) + Len(wb.sheet["B"].cells)

Workbooks(names) ==
    {wb \in [names : {names}, sheet : [Streams -> SheetContents(MaxRows)]] :
        /\ Rows(wb) <= MaxRows
        /\ \A n \in Streams : (\A i \in 1..Len(names) : names[i] # n)
                                  => wb.sheet[n] = Unreadable}

Configs ==
    [file_path : {"book.xlsx"},
     sheets : {<<>>, <<"B", "A">>, <<"C">>},
     bookmark_column : {"none", "updated_at"}]

Bookmarks == {None} \cup {IntCell(i) : i \in 1..MaxPrior}

NoBookmarks == [n \in Streams |-> None]

\* a state file has the shape {stream: {"bookmark": value}}; "bookmarks" is
\* the section singer.write_bookmark writes to
States == [top : [Streams -> Bookmarks], bookmarks : {NoBookmarks}]

InitPure ==
    /\ series = Series("object", <<>>)
    /\ type_info = TypeInfo(<<>>, "none", "none", "none")
    /\ record = <<>>
    /\ cleaned = Returned(<<>>)

InitSyncWith(names) ==
    /\ config \in Configs
    /\ workbook \in Workbooks(names)
    /\ input_state \in States
    /\ state = input_state
    /\ sheets_to_process = <<>>
    /\ sheet_i = 0
    /\ df = NoFrame
    /\ row_i = 0
    /\ max_bookmark = None
    /\ out = <<>>
    /\ pc = "start"
    /\ raised = "none"
    /\ run = 1

Init == InitSyncWith(<<"A", "B">>) /\ InitPure

\* s in available_sheets
Contains(list, x) == \E i \in 1..Len(list) : list[i] = x

RECURSIVE Available(_, _)
\* [s for s in self.sheets_to_sync if s in available_sheets]
Available(requested, available) ==
    IF requested = <<>> THEN <<>>
    ELSE IF Contains(available, Head(requested))
      THEN <<Head(requested)>> \o Available(Tail(requested), available)
    ELSE Available(Tail(requested), available)

SheetsToProcess(cfg, available) ==
    IF cfg.sheets # <<>> THEN Available(cfg.sheets, available) ELSE available

\* bool(v) of a Python value; NaN is a non-zero float
Truthy(c) ==
    CASE c.kind = "none" -> FALSE
      [] c.kind \in {"int", "float", "bool"} -> c.n # 0
      [] c.kind = "text" -> c.s # <<>>
      [] OTHER -> TRUE

\* the number a numeric cell stands for, in thousandths
Num(c) == IF c.kind = "float" THEN c.n ELSE 1000 * c.n

\* a <= b in Python: None is not ordered, NaN compares false
LessEq(a, b) ==
    IF a.kind = "none" \/ b.kind = "none" THEN Raised("TypeError")
    ELSE IF a.kind = "null" \/ b.kind = "null" THEN Returned(FALSE)
    ELSE Returned(Num(a) <= Num(b))

\* df[bookmark_column].max(): NaN is skipped, and is the result when nothing is left
ColumnMax(cells) ==
    LET present == DropNa(cells)
    IN  IF present = <<>> THEN Null
        ELSE present[CHOOSE i \in 1..Len(present) :
                        \A j \in 1..Len(present) : Num(present[j]) <= Num(present[i])]

ReadExcel(content) == [column |-> content.column,
                       series |-> Series(DtypeOf(content.cells), content.cells)]

\* _infer_schema: the sheets of the model hold no text, so no column is
\* converted by pd.to_datetime
InferSchema(frame) ==
    [type |-> "object", properties |-> (frame.column :> InferColumnType(frame.series))]

NoSchema == [type |-> "none", properties |-> <<>>]

SchemaMessage(stream, schema) ==
    [type |-> "SCHEMA", stream |-> stream, schema |-> schema, record |-> <<>>]

RecordMessage(stream, rec) ==
    [type |-> "RECORD", stream |-> stream, schema |-> NoSchema, record |-> rec]

\* max_bookmark with "updated_at" as the key when none is configured
MaxBookmark_DefaultKey(cfg, frame) ==
    LET key == IF cfg.bookmark_column = "none" THEN "updated_at" ELSE cfg.bookmark_column
    IN  IF key = frame.column THEN ColumnMax(frame.series.cells) ELSE None

\* max_bookmark as lines 243-245 compute it
MaxBookmark(cfg, frame) ==
    IF cfg.bookmark_column # "none" /\ cfg.bookmark_column = frame.column
    THEN ColumnMax(frame.series.cells) ELSE None

\* state.get(sheet_name, {}).get('bookmark')
PriorBookmark(st, sheet_name) == st.top[sheet_name]

\* SkipRow reading record[bookmark_column] where the code reads
\* record.get(bookmark_column)
SkipRow_Indexing(cfg, rec, st, sheet_name) ==
    IF cfg.bookmark_column = "none" THEN Returned(FALSE)
    ELSE IF cfg.bookmark_column \notin DOMAIN rec THEN Raised("KeyError")
    ELSE IF ~Truthy(rec[cfg.bookmark_column]) THEN Returned(FALSE)
    ELSE LessEq(rec[cfg.bookmark_column], PriorBookmark(st, sheet_name))

\* the condition of lines 253-255, evaluated left to right
SkipRow(cfg, rec, st, sheet_name) ==
    IF cfg.bookmark_column = "none" THEN Returned(FALSE)
    ELSE LET v == IF cfg.bookmark_column \in DOMAIN rec
                  THEN rec[cfg.bookmark_column] ELSE None
         IN  IF ~Truthy(v) THEN Returned(FALSE)
             ELSE LessEq(v, PriorBookmark(st, sheet_name))

\* singer.write_bookmark(state, sheet_name, 'bookmark', value)
WriteBookmark(st, sheet_name, value) ==
    [st EXCEPT !.bookmarks[sheet_name] = value]

\* lines 263-270
UpdateState(st, sheet_name, maxb) ==
    IF Truthy(maxb) THEN WriteBookmark(st, sheet_name, maxb) ELSE st

SyncStart ==
    /\ pc = "start"
    /\ sheets_to_process' = SheetsToProcess(config, workbook.names)
    /\ IF sheets_to_process' = <<>>
       THEN pc' = "done" /\ sheet_i' = sheet_i
       ELSE pc' = "sheet" /\ sheet_i' = 1
    /\ UNCHANGED <<config, workbook, input_state, state, df, row_i, max_bookmark, out,
                   raised, run>>
    /\ UNCHANGED pureVars

\* the except clause leaving the loop (break) where the code continues
AfterReadError_Break(i) == Len(sheets_to_process) + 1

\* what the except clause of lines 230-232 does with the for loop
AfterReadError(i) == i + 1

ReadSheetFails ==
    /\ pc = "sheet"
    /\ sheet_i <= Len(sheets_to_process)
    /\ ~workbook.sheet[sheets_to_process[sheet_i]].readable
    /\ sheet_i' = AfterReadError(sheet_i)
    /\ UNCHANGED <<config, workbook, input_state, state, sheets_to_process, df, row_i,
                   max_bookmark, out, pc, raised, run>>
    /\ UNCHANGED pureVars

ReadSheet ==
    /\ pc = "sheet"
    /\ sheet_i <= Len(sheets_to_process)
    /\ LET sheet_name == sheets_to_process[sheet_i]
       IN  /\ workbook.sheet[sheet_name].readable
           /\ df' = ReadExcel(workbook.sheet[sheet_name])
           /\ out' = Append(out, SchemaMessage(sheet_name, InferSchema(df')))
           /\ max_bookmark' = MaxBookmark(config, df')
    /\ row_i' = 1
    /\ pc' = "rows"
    /\ UNCHANGED <<config, workbook, input_state, state, sheets_to_process, sheet_i,
                   raised, run>>
    /\ UNCHANGED pureVars

ProcessRow ==
    /\ pc = "rows"
    /\ row_i <= Len(df.series.cells)
    /\ LET sheet_name == sheets_to_process[sheet_i]
           row == (df.column :> df.series.cells[row_i])
           rec == TapCleanRecord(TapSelf(config), row)
           skip == SkipRow(config, rec.value, state, sheet_name)
       IN  IF rec.raised # "none"
             THEN pc' = "crashed" /\ raised' = rec.raised /\ UNCHANGED <<out, row_i>>
           ELSE IF skip.raised # "none"
             THEN pc' = "crashed" /\ raised' = skip.raised /\ UNCHANGED <<out, row_i>>
           ELSE IF skip.value
             THEN row_i' = row_i + 1 /\ UNCHANGED <<out, pc, raised>>
           ELSE /\ out' = Append(out, RecordMessage(sheet_name, rec.value))
                /\ row_i' = row_i + 1
                /\ UNCHANGED <<pc, raised>>
    /\ UNCHANGED <<config, workbook, input_state, state, sheets_to_process, sheet_i, df,
                   max_bookmark, run>>
    /\ UNCHANGED pureVars

EndSheet ==
    /\ pc = "rows"
    /\ row_i > Len(df.series.cells)
    /\ state' = UpdateState(state, sheets_to_process[sheet_i], max_bookmark)
    /\ sheet_i' = sheet_i + 1
    /\ pc' = "sheet"
    /\ UNCHANGED <<config, workbook, input_state, sheets_to_process, df, row_i,
                   max_bookmark, out, raised, run>>
    /\ UNCHANGED pureVars

\* sync returns the state; main drops it and the process ends
SyncReturn ==
    /\ pc = "sheet"
    /\ sheet_i > Len(sheets_to_process)
    /\ pc' = "done"
    /\ UNCHANGED <<config, workbook, input_state, state, sheets_to_process, sheet_i, df,
                   row_i, max_bookmark, out, raised, run>>
    /\ UNCHANGED pureVars

Next ==
    \/ SyncStart
    \/ ReadSheetFails
    \/ ReadSheet
    \/ ProcessRow
    \/ EndSheet
    \/ SyncReturn

Spec == Init /\ [][Next]_vars

\* ------------------------------------------------------------------ two runs
\* the dataset only grows: every sheet keeps its rows and may get more
IsPrefix(a, b) == Len(a) <= Len(b) /\ SubSeq(b, 1, Len(a)) = a

Grown(wb) ==
    {w \in Workbooks(wb.names) :
        \A n \in Streams :
            /\ w.sheet[n].readable = wb.sheet[n].readable
            /\ w.sheet[n].column = wb.sheet[n].column
            /\ IsPrefix(wb.sheet[n].cells, w.sheet[n].cells)}

\* the tap is started again with the state sync returned (main, lines 289-296)
Rerun ==
    /\ pc = "done"
    /\ run < MaxRuns
    /\ run' = run + 1
    /\ workbook' \in Grown(workbook)
    /\ input_state' = state
    /\ sheets_to_process' = <<>>
    /\ sheet_i' = 0
    /\ df' = NoFrame
    /\ row_i' = 0
    /\ max_bookmark' = None
    /\ out' = <<>>
    /\ pc' = "start"
    /\ UNCHANGED <<config, state, raised>>
    /\ UNCHANGED pureVars

InitRuns == InitSyncWith(<<"A">>) /\ InitPure

NextRuns == Next \/ Rerun

SpecRuns == InitRuns /\ [][NextRuns]_vars

\* ------------------------------------------------------------------ inference
\* the texts of the sampled columns
Text_date == <<"2","0","2","4","-","0","1","-","1","5">>

Text_datetime == <<"2","0","2","4","-","0","1","-","1","5"," ","1","0",":","3","0",":","0","0">>

Text_time == <<"1","0",":","3","0",":","0","0">>

Text_usdate == <<"0","1","/","1","5","/","2","0","2","4">>

Text_word == <<"a","b","c">>

Text_true == <<"T","R","U","E">>

Text_price == <<"$","1","9",".","9","9">>

Texts == {Text_date, Text_datetime, Text_time, Text_usdate, Text_word, Text_true, Text_price}

SampledCells ==
    {Null, IntCell(7), FloatCell(2500), FloatCell(3000), BoolCell(TRUE),
     Cell("timestamp", 0, Text_datetime)}
    \cup {TextCell(t) : t \in Texts}

\* the columns pandas can hand over: an object column holds any values, a
\* typed column only values of its type
Columns ==
    {Series(DtypeOf(c), c) : c \in SeqsUpTo(SampledCells, MaxCol)}
    \cup {Series("object", c) : c \in SeqsUpTo(SampledCells, MaxCol)}

InitSyncIdle ==
    /\ config = [file_path |-> "book.xlsx", sheets |-> <<>>, bookmark_column |-> "none"]
    /\ workbook = [names |-> <<>>, sheet |-> [n \in Streams |-> Unreadable]]
    /\ input_state = [top |-> NoBookmarks, bookmarks |-> NoBookmarks]
    /\ state = input_state
    /\ sheets_to_process = <<>>
    /\ sheet_i = 0
    /\ df = NoFrame
    /\ row_i = 0
    /\ max_bookmark = None
    /\ out = <<>>
    /\ pc = "idle"
    /\ raised = "none"
    /\ run = 1

NoTypeInfo == TypeInfo(<<>>, "none", "none", "pending")

InitInfer ==
    /\ InitSyncIdle
    /\ series \in Columns
    /\ type_info = NoTypeInfo
    /\ record = <<>>
    /\ cleaned = Returned(<<>>)

InferCall ==
    /\ pc = "idle"
    /\ type_info = NoTypeInfo
    /\ type_info' = InferColumnType(series)
    /\ UNCHANGED <<series, record, cleaned>>
    /\ UNCHANGED syncVars

SpecInfer == InitInfer /\ [][InferCall]_vars

\* ------------------------------------------------------------------ cleaning
RawValues ==
    {Null, BoolCell(TRUE), IntCell(7), FloatCell(19999), FloatCell(125), FloatCell(5000),
     TextCell(Text_word), Cell("date", 0, Text_date), Cell("time", 0, Text_time),
     Cell("timestamp", 0, Text_datetime), Cell("datetime", 0, Text_datetime),
     Cell("timedelta", 0, <<"1"," ","d","a","y","s"," ","0","0",":","0","0",":","0","0">>)}

\* float_precision=2 in the signature of clean_record and in sync's config.get
DefaultFloatPrecision == 2

Pending == [raised |-> "pending", value |-> None]

InitClean ==
    /\ InitSyncIdle
    /\ series = Series("object", <<>>)
    /\ type_info = NoTypeInfo
    /\ record \in [{"a", "b"} -> RawValues]
    /\ cleaned = Pending

\* ExcelTap._clean_record(record)
TapClean ==
    /\ pc = "idle"
    /\ cleaned = Pending
    /\ cleaned' = TapCleanRecord(TapSelf(config), record)
    /\ pc' = "tap"
    /\ UNCHANGED <<config, workbook, input_state, state, sheets_to_process, sheet_i, df,
                   row_i, max_bookmark, out, raised, run>>
    /\ UNCHANGED <<series, type_info, record>>

\* ExcelConnection.clean_record(record)
ConnectionClean ==
    /\ pc = "idle"
    /\ cleaned = Pending
    /\ cleaned' = ConnCleanRecord(record, DefaultFloatPrecision)
    /\ pc' = "connection"
    /\ UNCHANGED <<config, workbook, input_state, state, sheets_to_process, sheet_i, df,
                   row_i, max_bookmark, out, raised, run>>
    /\ UNCHANGED <<series, type_info, record>>

NextClean == TapClean \/ ConnectionClean

SpecClean == InitClean /\ [][NextClean]_vars

\* ------------------------------------------------------------------ properties
Terminated == pc \in {"done", "crashed"}

KeyConfigured == config.bookmark_column # "none"

\* the sheet read last has the configured replication key as its column
KeySheet == KeyConfigured /\ df # NoFrame /\ df.column = config.bookmark_column

\* the sheet read last lacks the configured replication key
KeylessSheet == KeyConfigured /\ df # NoFrame /\ df.column # config.bookmark_column

RECURSIVE SchemaStreams(_)
SchemaStreams(msgs) ==
    IF msgs = <<>> THEN <<>>
    ELSE IF Head(msgs).type = "SCHEMA"
      THEN <<Head(msgs).stream>> \o SchemaStreams(Tail(msgs))
    ELSE SchemaStreams(Tail(msgs))

RECURSIVE RecordsOf(_, _)
RecordsOf(msgs, stream) ==
    IF msgs = <<>> THEN <<>>
    ELSE IF Head(msgs).type = "RECORD" /\ Head(msgs).stream = stream
      THEN <<Head(msgs).record>> \o RecordsOf(Tail(msgs), stream)
    ELSE RecordsOf(Tail(msgs), stream)

\* the stream of the sheet read last
CurrentStream == SchemaStreams(out)[Len(SchemaStreams(out))]

\* the rows of the current sheet the row loop has dealt with
RowsDone == row_i - 1

\* the record a row becomes: a null becomes None, an integer stays
RowRecord(column, c) == (column :> (IF IsNa(c) THEN None ELSE c))

RECURSIVE KeptRows(_, _, _, _)
\* the records of the first k rows that the filtering rule of the design keeps:
\* a row is dropped when its key is present, a prior bookmark is present and
\* key <= prior bookmark
KeptRows(column, cells, k, prior) ==
    IF k = 0 THEN <<>>
    ELSE LET c == cells[k]
             dropped == ~IsNa(c) /\ prior # None /\ Num(c) <= Num(prior)
         IN  IF dropped THEN KeptRows(column, cells, k - 1, prior)
             ELSE Append(KeptRows(column, cells, k - 1, prior), RowRecord(column, c))

\* C2: with the replication key in the sheet, a row is suppressed iff its key
\* is present, a prior bookmark is present and key <= prior bookmark; all other
\* rows are emitted in row order; an absent prior bookmark does not make the
\* run fail.
C2_RowFilter ==
    (KeySheet /\ pc \in {"rows", "crashed"}) =>
        LET prior == PriorBookmark(input_state, CurrentStream)
        IN  /\ RecordsOf(out, CurrentStream)
                 = KeptRows(df.column, df.series.cells, RowsDone, prior)
            /\ (prior = None => raised # "TypeError")

\* C3: after a sheet with the replication key is processed, the bookmark stored
\* for its stream is the maximum key of all its rows, a zero maximum included.
C3_BookmarkIsMax ==
    (KeySheet /\ pc \in {"sheet", "done"} /\ DropNa(df.series.cells) # <<>>) =>
        state.bookmarks[CurrentStream] = ColumnMax(df.series.cells)

\* every record of a stream comes after the stream's one schema and before the
\* next schema
WellOrdered(msgs) ==
    /\ \A i, j \in 1..Len(msgs) :
          (msgs[i].type = "SCHEMA" /\ msgs[j].type = "SCHEMA" /\ i # j)
              => msgs[i].stream # msgs[j].stream
    /\ \A i \in 1..Len(msgs) :
          msgs[i].type = "RECORD" =>
              \E k \in 1..(i - 1) :
                  /\ msgs[k].type = "SCHEMA"
                  /\ msgs[k].stream = msgs[i].stream
                  /\ \A m \in (k + 1)..i : msgs[m].type = "RECORD"

\* C6: a run that wrote records wrote, per stream, one schema message, then the
\* stream's records with no other stream in between, and after the last
\* stream's records a state message.
C6_OutputOrder ==
    (pc = "done" /\ \E i \in 1..Len(out) : out[i].type = "RECORD") =>
        /\ WellOrdered(SubSeq(out, 1, Len(out) - 1))
        /\ out[Len(out)].type = "STATE"

\* the records the first k rows of a sheet become when every one is written
AllRows(frame, k) == [i \in 1..k |-> RowRecord(frame.column, frame.series.cells[i])]

\* the run ended in the row loop on a float cell, the one value the tap's
\* record cleaning raises on
StoppedOnFloat ==
    /\ raised = "AttributeError"
    /\ row_i <= Len(df.series.cells)
    /\ df.series.cells[row_i].kind = "float"

RECURSIVE Readable(_, _)
\* the sheets of a list that can be read
Readable(list, wb) ==
    IF list = <<>> THEN <<>>
    ELSE IF wb.sheet[Head(list)].readable
      THEN <<Head(list)>> \o Readable(Tail(list), wb)
    ELSE Readable(Tail(list), wb)

RECURSIVE RowLoop(_, _, _, _, _)
\* what the row loop writes for rows i.. of a sheet, and how it ends
RowLoop(cfg, st, sheet_name, frame, i) ==
    IF i > Len(frame.series.cells) THEN [msgs |-> <<>>, raised |-> "none"]
    ELSE LET rec == TapCleanRecord(TapSelf(cfg), (frame.column :> frame.series.cells[i]))
             skip == SkipRow(cfg, rec.value, st, sheet_name)
             rest == RowLoop(cfg, st, sheet_name, frame, i + 1)
         IN  IF rec.raised # "none" THEN [msgs |-> <<>>, raised |-> rec.raised]
             ELSE IF skip.raised # "none" THEN [msgs |-> <<>>, raised |-> skip.raised]
             ELSE IF skip.value THEN rest
             ELSE [msgs |-> <<RecordMessage(sheet_name, rec.value)>> \o rest.msgs,
                   raised |-> rest.raised]

RECURSIVE RunOver(_, _, _, _)
\* the messages, the state and the exception of a run over a list of sheets
\* that can all be read
RunOver(cfg, st, list, wb) ==
    IF list = <<>> THEN [msgs |-> <<>>, state |-> st, raised |-> "none"]
    ELSE LET sheet_name == Head(list)
             frame == ReadExcel(wb.sheet[sheet_name])
             schema == SchemaMessage(sheet_name, InferSchema(frame))
             rows == RowLoop(cfg, st, sheet_name, frame, 1)
             rest == RunOver(cfg, UpdateState(st, sheet_name, MaxBookmark(cfg, frame)),
                             Tail(list), wb)
         IN  IF rows.raised # "none"
             THEN [msgs |-> <<schema>> \o rows.msgs, state |-> st, raised |-> rows.raised]
             ELSE [msgs |-> <<schema>> \o rows.msgs \o rest.msgs, state |-> rest.state,
                   raised |-> rest.raised]

\* the requested sheets the loop has passed or is in
Visited ==
    SubSeq(sheets_to_process, 1,
           IF pc = "sheet" THEN sheet_i - 1
           ELSE IF pc \in {"rows", "crashed"} THEN sheet_i
           ELSE Len(sheets_to_process))

FullTable == config.bookmark_column = "none"

\* the readable sheets whose row loop has run to its end
Completed ==
    Readable(SubSeq(sheets_to_process, 1,
                    IF pc \in {"rows", "crashed"} THEN sheet_i - 1 ELSE Len(Visited)),
             workbook)

C7_Frame ==
    /\ state.top = input_state.top
    /\ \A n \in Streams :
          state.bookmarks[n] # input_state.bookmarks[n] => Contains(Completed, n)
    /\ FullTable =>
          /\ state = input_state
          /\ \A i \in 1..Len(Completed) :
                LET frame == ReadExcel(workbook.sheet[Completed[i]])
                IN  RecordsOf(out, Completed[i]) = AllRows(frame, Len(frame.series.cells))
          /\ df # NoFrame => RecordsOf(out, CurrentStream) = AllRows(df, RowsDone)
          /\ pc = "crashed" => StoppedOnFloat

C7_Step ==
    \A n \in Streams :
        state'.bookmarks[n] # state.bookmarks[n] =>
            /\ state.bookmarks[n] = input_state.bookmarks[n]
            /\ pc = "rows"
            /\ n = sheets_to_process[sheet_i]

\* C7: without a replication key every row of every sheet that is processed is
\* emitted and the state stays the input state; in any run the entry of a
\* stream changes at most once, when its own sheet has been processed, and
\* never for a sheet that was skipped or not processed.
C7_StateFrame == []C7_Frame /\ [][C7_Step]_vars

\* a full-table run over two sheets wrote every row although the input state
\* holds a bookmark that covers a row
C7_Witness ==
    /\ FullTable
    /\ pc = "done"
    /\ SchemaStreams(out) = <<"A", "B">>
    /\ workbook.sheet["A"].column = "updated_at"
    /\ workbook.sheet["A"].cells = <<IntCell(1)>>
    /\ input_state.top["A"] = IntCell(1)
    /\ RecordsOf(out, "A") = <<RowRecord("updated_at", IntCell(1))>>
    /\ Len(RecordsOf(out, "B")) = 1
    /\ state = input_state

RECURSIVE NewerRows(_, _, _, _)
\* the records of the first k rows whose key is greater than a bookmark
NewerRows(column, cells, k, bookmark) ==
    IF k = 0 THEN <<>>
    ELSE IF Num(cells[k]) > Num(bookmark)
      THEN Append(NewerRows(column, cells, k - 1, bookmark), RowRecord(column, cells[k]))
    ELSE NewerRows(column, cells, k - 1, bookmark)

\* the bookmark the first run left for a stream in the state it returned
FirstRunBookmark(stream) == input_state.bookmarks[stream]

\* C1: the second of two runs over a growing sheet, started with the state the
\* first run returned, emits exactly the rows whose key is greater than the
\* first run's final bookmark and ends with the sheet's maximum key as bookmark.
C1_SecondRun ==
    LET cells == workbook.sheet["A"].cells
    IN  ( /\ run = 2
          /\ Terminated
          /\ KeyConfigured
          /\ sheets_to_process = <<"A">>
          /\ workbook.sheet["A"].readable
          /\ workbook.sheet["A"].column = config.bookmark_column
          /\ \A i \in 1..Len(cells) : cells[i].kind = "int" /\ cells[i].n >= 1
          /\ FirstRunBookmark("A").kind = "int" )
        => /\ pc = "done"
           /\ RecordsOf(out, "A")
                = NewerRows("updated_at", cells, Len(cells), FirstRunBookmark("A"))
           /\ state.bookmarks["A"] = ColumnMax(cells)

Inferred == type_info # NoTypeInfo

FullDateTime == date_formats[7].pat

\* a text column one of whose sampled values has the form YYYY-MM-DD HH:MM:SS
HasDateTimeText ==
    /\ series.dtype = "object"
    /\ \A i \in 1..Len(series.cells) : series.cells[i].kind \in {"text", "null"}
    /\ \E i \in 1..Len(series.cells) :
          /\ series.cells[i].kind = "text"
          /\ Len(series.cells[i].s) = Len(FullDateTime)
          /\ ReMatch(FullDateTime, series.cells[i].s)

\* C8: a text column with a sampled value of the form YYYY-MM-DD HH:MM:SS is
\* given the format date-time, never date.
C8_DateTimePrecedence ==
    (Inferred /\ HasDateTimeText) => type_info.format = "date-time"

HasNull(cells) == \E i \in 1..Len(cells) : IsNa(cells[i])

C10_CleaningIsTotal ==
    cleaned # Pending =>
        /\ cleaned.raised = "none"
        /\ \A k \in DOMAIN record :
              /\ record[k].kind = "float"
                    => cleaned.value[k] = FloatCell(Round(record[k].n, DefaultFloatPrecision))
              /\ record[k].kind \in {"bool", "int", "text", "date", "time"}
                    => cleaned.value[k] = record[k]

====
